---- MODULE Spec2Model ----
(***************************************************************************)
(* A model of the configuration-resolution and byte-budget core of         *)
(* bincode2: src/internal.rs (SizeLimit, SizeType, serialize,              *)
(* serialized_size, deserialize) and src/config.rs (Options, the With*     *)
(* composition steps, config_map!, Config).                                *)
(*                                                                         *)
(* Four specifications share the module:                                   *)
(*   SpecLimit  one SizeLimit instance driven by add(n) calls              *)
(*   SpecSize   SizeType::write followed by SizeType::read                 *)
(*   SpecChain  the With* composition steps applied in any order           *)
(*   Spec       a Config, its setters and its public operations            *)
(*   SpecFmt    Display::fmt of one ErrorKind value (src/error.rs)         *)
(***************************************************************************)
EXTENDS Integers, Sequences, FiniteSets, TLC

\* ------------------------------------------------------------------ bounds
\* Largest budget k of a Bounded(k) / Config::limit(k).
MaxBudget == 2
\* Largest amount handed to one add(n) call in SpecLimit.
MaxAmt == 3
\* Number of add calls made on one SizeLimit instance in SpecLimit.
MaxCalls == 4
\* Longest value (number of items its traversal visits) in Spec.
MaxItems == 2
\* Number of add calls metered through a composed specialization in
\* SpecChain.
MaxMeter == 1
\* Number of nested calls of Display::fmt the stack holds in SpecFmt.
MaxStack == 8

VARIABLES
    \* SpecLimit: one SizeLimit instance and the history of the calls on it
    inst,       \* the live instance: Bounded(remaining) or Infinite
    budget,     \* the k the instance was created with
    calls,      \* number of add calls made so far
    total,      \* sum of the amounts of the successful add calls
    prevInst,   \* the instance as it was before the last add call
    lastN,      \* the amount of the last add call
    lastRes,    \* its result: "none" before the first call
    failedAmts, \* the amounts of the add calls that failed before the last call
    \* SpecSize: one length written with SizeType::write and read back
    szType, szEndian, szValue, szPc, szWire, szWriteRes, szReadRes,
    \* SpecChain: composition steps applied to a base specialization
    chBase, chOpts, chApplied, chWant, chLast, chPrev, chAdds,
    \* Spec: a Config and the public operation in progress
    config,       \* the Config
    target,       \* the byte order of the build's target
    pc,           \* "idle", "count", "write", "read" or "done"
    op,           \* the Config method in progress
    frame,        \* the function of internal.rs in progress
    value,        \* the items the traversal of the value visits
    resolved,     \* the specialization config_map! handed to its call
    contCalls,    \* how many times config_map! evaluated its call
    options,      \* the specialization owned by the internal function
    size_counter, \* the SizeChecker's options in serialized_size
    idx,          \* the next item of the traversal in progress
    writer,       \* bytes pushed to the writer
    consumed,     \* bytes pulled from the reader
    actual_size,  \* what serialized_size returned in Ok
    passRes,      \* the error that stopped the traversal in progress
    result,       \* what the Config method returned
    limitQueried, \* the calls of SizeLimit::limit of the operation in progress
    lastSet,      \* per axis, the value the most recent setter was given
    \* SpecFmt: one ErrorKind value being rendered
    fmtVal,       \* the ErrorKind value
    fmtPc,        \* "idle", "run", "done" or "overflow"
    fmtStack,     \* per nested call of fmt, the next piece of its write!
    fmtOut        \* the text pieces written to the Formatter

limVars == <<inst, budget, calls, total, prevInst, lastN, lastRes, failedAmts>>
sizeVars == <<szType, szEndian, szValue, szPc, szWire, szWriteRes, szReadRes>>
chainVars == <<chBase, chOpts, chApplied, chWant, chLast, chPrev, chAdds>>
mainVars == <<config, target, pc, op, frame, value, resolved, contCalls,
              options, size_counter, idx, writer, consumed, actual_size,
              passRes, result, lastSet, limitQueried>>
fmtVars == <<fmtVal, fmtPc, fmtStack, fmtOut>>
vars == <<limVars, sizeVars, chainVars, mainVars, fmtVars>>

\* ------------------------------------------------------- results (error.rs)
\* Result<T>: Ok, or Err(Box<ErrorKind>) named by its variant.
Ok == "Ok"
SizeLimit == "SizeLimit"
SizeTypeLimit == "SizeTypeLimit"

\* ------------------------------------------------- SizeLimit (internal.rs)
\* pub struct Bounded(pub u64)
Bounded(k) == [tag |-> "Bounded", rem |-> k]

\* pub struct Infinite
Infinite == [tag |-> "Infinite"]

\* struct CountSize<L> { total, other_limit }
CountSize(t, l) == [tag |-> "CountSize", total |-> t, other_limit |-> l]

\* A slip of the comparison: > instead of >=.
Bounded_add_Strict(self, n) ==
    IF self.rem > n
        THEN [res |-> Ok, self |-> Bounded(self.rem - n)]
        ELSE [res |-> SizeLimit, self |-> self]

\* A failed call that charges what is left of the budget.
Bounded_add_Drain(self, n) ==
    IF self.rem >= n
        THEN [res |-> Ok, self |-> Bounded(self.rem - n)]
        ELSE [res |-> SizeLimit, self |-> Bounded(0)]

\* A slip of the sign: the budget grows by n.
Bounded_add_Grow(self, n) ==
    IF self.rem >= n
        THEN [res |-> Ok, self |-> Bounded(self.rem + n)]
        ELSE [res |-> SizeLimit, self |-> self]

\* Bounded::add: the result and the instance after the call.
Bounded_add(self, n) ==
    IF self.rem >= n
        THEN [res |-> Ok, self |-> Bounded(self.rem - n)]
        ELSE [res |-> SizeLimit, self |-> self]

\* Bounded::limit: Some(remaining).
Bounded_limit(self) == [some |-> TRUE, v |-> self.rem]

\* Infinite::add
Infinite_add(self, n) == [res |-> Ok, self |-> self]

\* Infinite::limit: None.
Infinite_limit(self) == [some |-> FALSE, v |-> 0]

\* The add of the wrapped limit of a CountSize (Infinite or Bounded: the
\* limit of the specialization serialized_size was given).
Inner_add(l, n) ==
    IF l.tag = "Bounded" THEN Bounded_add(l, n) ELSE Infinite_add(l, n)

\* A counter that counts the calls instead of the bytes.
CountSize_add_One(self, c) ==
    LET r == Inner_add(self.other_limit, c) IN
    IF r.res # Ok
        THEN [res |-> r.res, self |-> CountSize(self.total, r.self)]
        ELSE [res |-> Ok, self |-> CountSize(self.total + 1, r.self)]

\* A counter that adds the amount before it asks the wrapped limit.
CountSize_add_Eager(self, c) ==
    LET r == Inner_add(self.other_limit, c) IN
    [res |-> r.res, self |-> CountSize(self.total + c, r.self)]

\* CountSize::add: forward to other_limit, then total += c.
CountSize_add(self, c) ==
    LET r == Inner_add(self.other_limit, c) IN
    IF r.res # Ok
        THEN [res |-> r.res, self |-> CountSize(self.total, r.self)]
        ELSE [res |-> Ok, self |-> CountSize(self.total + c, r.self)]

\* SizeLimit::add, dispatched on the implementing type.
SizeLimit_add(l, n) ==
    CASE l.tag = "Bounded" -> Bounded_add(l, n)
      [] l.tag = "Infinite" -> Infinite_add(l, n)
      [] l.tag = "CountSize" -> CountSize_add(l, n)

\* SizeLimit::limit, dispatched on the implementing type; CountSize::limit
\* is unreachable!().
SizeLimit_limit(l) ==
    CASE l.tag = "Bounded" -> Bounded_limit(l)
      [] l.tag = "Infinite" -> Infinite_limit(l)
      [] l.tag = "CountSize" -> [some |-> FALSE, v |-> 0, panic |-> TRUE]

\* -------------------------------------------------- SizeType (internal.rs)
\* A length is a little-endian string of base-256 digits, one per byte of
\* its integer type, so that 64-bit values are exact.
Zeros(n) == [i \in 1..n |-> 0]

\* usize: 8 bytes (the 64-bit targets).
UsizeBytes == 8

\* u64, the result type of SizeType::read.
U64Bytes == 8

\* A usize from its low digits.
Usize(low) == low \o Zeros(UsizeBytes - Len(low))

\* The four size types.
SizeTypes == {"U8", "U16", "U32", "U64"}

\* SizeType::Primitive, by its number of bytes: u8, u16, u32, u64.
PrimitiveBytes(t) ==
    CASE t = "U8" -> 1
      [] t = "U16" -> 2
      [] t = "U32" -> 4
      [] t = "U64" -> 8

\* A cast (value as Primitive) in place of the checked conversion.
TryFrom_usize_Wrapping(t, v) ==
    [ok |-> TRUE, prim |-> SubSeq(v, 1, PrimitiveBytes(t))]

\* Primitive::try_from(usize): fails when a digit above the primitive's
\* width is set.
TryFrom_usize(t, v) ==
    IF \A i \in (PrimitiveBytes(t) + 1)..Len(v) : v[i] = 0
        THEN [ok |-> TRUE, prim |-> SubSeq(v, 1, PrimitiveBytes(t))]
        ELSE [ok |-> FALSE, prim |-> <<>>]

\* A widening that extends the sign bit (the primitive taken as signed).
Into_u64_SignExtend(prim) ==
    prim \o [i \in 1..(U64Bytes - Len(prim)) |->
                IF prim[Len(prim)] >= 128 THEN 255 ELSE 0]

\* Primitive::into(): u64, the lossless widening.
Into_u64(prim) == prim \o Zeros(U64Bytes - Len(prim))

\* NativeEndian is the byte order of the build's target.
ResolveEndian(e, tgt) == IF e = "Native" THEN tgt ELSE e

Reverse(s) == [i \in 1..Len(s) |-> s[Len(s) + 1 - i]]

\* serde::Serializer::serialize_u8/u16/u32/u64 of the encoder: the bytes of
\* the primitive in the byte order of the specialization.
Serialize_uint(prim, e, tgt) ==
    IF ResolveEndian(e, tgt) = "Little" THEN prim ELSE Reverse(prim)

\* The reader closure handed to SizeType::read: the decoder reading one
\* Primitive from the front of the input.
Deserialize_uint(bytes, n, e, tgt) ==
    IF Len(bytes) < n
        THEN [ok |-> FALSE, prim |-> <<>>]
        ELSE [ok |-> TRUE,
              prim |-> IF ResolveEndian(e, tgt) = "Little"
                          THEN SubSeq(bytes, 1, n)
                          ELSE Reverse(SubSeq(bytes, 1, n))]

\* U8/U16/U32/U64::write_to: writer.serialize_uN(value).
SizeType_write_to(t, prim, e, tgt) ==
    [res |-> Ok, out |-> Serialize_uint(prim, e, tgt)]

\* SizeType::write: try_into, SizeTypeLimit on failure, else write_to.
SizeType_write(t, v, e, tgt) ==
    LET c == TryFrom_usize(t, v) IN
    IF ~c.ok
        THEN [res |-> SizeTypeLimit, out |-> <<>>]
        ELSE SizeType_write_to(t, c.prim, e, tgt)

\* SizeType::read: reader()? and then into().
SizeType_read(t, bytes, e, tgt) ==
    LET r == Deserialize_uint(bytes, PrimitiveBytes(t), e, tgt) IN
    IF ~r.ok
        THEN [res |-> "Io", v |-> <<>>]
        ELSE [res |-> Ok, v |-> Into_u64(r.prim)]

\* ------------------------------------------------------ Options (config.rs)
\* struct DefaultOptions(Infinite); DefaultOptions::new
DefaultOptions_new == [kind |-> "DefaultOptions", limit |-> Infinite]

\* WithOtherLimit::new
WithOtherLimit_new(o, l) ==
    [kind |-> "WithOtherLimit", _options |-> o, new_limit |-> l]

\* WithOtherEndian::new, E given by the caller's type annotation
WithOtherEndian_new(o, e) ==
    [kind |-> "WithOtherEndian", options |-> o, _endian |-> e]

\* WithOtherStringLength::new
WithOtherStringLength_new(o, t) ==
    [kind |-> "WithOtherStringLength", options |-> o,
     _new_string_length |-> t]

\* WithOtherArrayLength::new
WithOtherArrayLength_new(o, t) ==
    [kind |-> "WithOtherArrayLength", options |-> o, _new_array_length |-> t]

\* The specialization a composition step wraps.
InnerOptions(o) == IF o.kind = "WithOtherLimit" THEN o._options ELSE o.options

RECURSIVE Options_limit(_), Options_limit_set(_, _), Options_Endian(_),
          Options_StringSize(_), Options_ArraySize(_)

\* impl Options for DefaultOptions
DefaultOptions_limit(o) == o.limit
DefaultOptions_Endian(o) == "Little"
DefaultOptions_StringSize(o) == "U64"
DefaultOptions_ArraySize(o) == "U64"

\* impl Options for WithOtherEndian
WithOtherEndian_limit(o) == Options_limit(o.options)
WithOtherEndian_Endian(o) == o._endian
WithOtherEndian_StringSize(o) == Options_StringSize(o.options)
WithOtherEndian_ArraySize(o) == Options_ArraySize(o.options)

\* impl Options for WithOtherLimit
WithOtherLimit_limit(o) == o.new_limit
WithOtherLimit_Endian(o) == Options_Endian(o._options)
WithOtherLimit_StringSize(o) == Options_StringSize(o._options)
WithOtherLimit_ArraySize(o) == Options_ArraySize(o._options)

\* A string-length step that also answers for the array axis.
WithOtherStringLength_ArraySize_Own(o) == o._new_string_length

\* impl Options for WithOtherStringLength
WithOtherStringLength_limit(o) == Options_limit(o.options)
WithOtherStringLength_Endian(o) == Options_Endian(o.options)
WithOtherStringLength_StringSize(o) == o._new_string_length
WithOtherStringLength_ArraySize(o) == Options_ArraySize(o.options)

\* impl Options for WithOtherArrayLength
WithOtherArrayLength_limit(o) == Options_limit(o.options)
WithOtherArrayLength_Endian(o) == Options_Endian(o.options)
WithOtherArrayLength_StringSize(o) == Options_StringSize(o.options)
WithOtherArrayLength_ArraySize(o) == o._new_array_length

\* Options::limit, read: the live limit instance the specialization
\* answers with (impl Options for &mut O answers with its referent's).
Options_limit(o) ==
    CASE o.kind = "DefaultOptions" -> DefaultOptions_limit(o)
      [] o.kind = "WithOtherLimit" -> WithOtherLimit_limit(o)
      [] o.kind = "WithOtherEndian" -> WithOtherEndian_limit(o)
      [] o.kind = "WithOtherStringLength" -> WithOtherStringLength_limit(o)
      [] o.kind = "WithOtherArrayLength" -> WithOtherArrayLength_limit(o)

\* Options::limit, written through: the specialization after the instance
\* its limit() refers to has become l.
Options_limit_set(o, l) ==
    CASE o.kind = "DefaultOptions" -> [o EXCEPT !.limit = l]
      [] o.kind = "WithOtherLimit" -> [o EXCEPT !.new_limit = l]
      [] OTHER -> [o EXCEPT !.options = Options_limit_set(o.options, l)]

\* Options::Endian
Options_Endian(o) ==
    CASE o.kind = "DefaultOptions" -> DefaultOptions_Endian(o)
      [] o.kind = "WithOtherLimit" -> WithOtherLimit_Endian(o)
      [] o.kind = "WithOtherEndian" -> WithOtherEndian_Endian(o)
      [] o.kind = "WithOtherStringLength" -> WithOtherStringLength_Endian(o)
      [] o.kind = "WithOtherArrayLength" -> WithOtherArrayLength_Endian(o)

\* Options::StringSize
Options_StringSize(o) ==
    CASE o.kind = "DefaultOptions" -> DefaultOptions_StringSize(o)
      [] o.kind = "WithOtherLimit" -> WithOtherLimit_StringSize(o)
      [] o.kind = "WithOtherEndian" -> WithOtherEndian_StringSize(o)
      [] o.kind = "WithOtherStringLength" ->
            WithOtherStringLength_StringSize(o)
      [] o.kind = "WithOtherArrayLength" -> WithOtherArrayLength_StringSize(o)

\* Options::ArraySize
Options_ArraySize(o) ==
    CASE o.kind = "DefaultOptions" -> DefaultOptions_ArraySize(o)
      [] o.kind = "WithOtherLimit" -> WithOtherLimit_ArraySize(o)
      [] o.kind = "WithOtherEndian" -> WithOtherEndian_ArraySize(o)
      [] o.kind = "WithOtherStringLength" -> WithOtherStringLength_ArraySize(o)
      [] o.kind = "WithOtherArrayLength" -> WithOtherArrayLength_ArraySize(o)

\* options.limit().add(n): the result and the specialization after it.
Options_limit_add(o, n) ==
    LET r == SizeLimit_add(Options_limit(o), n) IN
    [res |-> r.res, options |-> Options_limit_set(o, r.self)]

\* OptionsExt
with_no_limit(o) == WithOtherLimit_new(o, Infinite)
with_limit(o, limit) == WithOtherLimit_new(o, Bounded(limit))
with_little_endian(o) == WithOtherEndian_new(o, "Little")
with_big_endian(o) == WithOtherEndian_new(o, "Big")
with_native_endian(o) == WithOtherEndian_new(o, "Native")
with_string_size(o, t) == WithOtherStringLength_new(o, t)
with_array_size(o, t) == WithOtherArrayLength_new(o, t)

\* The four axes of a specialization.
Axes(o) ==
    [limit |-> Options_limit(o), endian |-> Options_Endian(o),
     string |-> Options_StringSize(o), array |-> Options_ArraySize(o)]

\* ------------------------------------------------------- Config (config.rs)
\* enum LimitOption
Unlimited == [tag |-> "Unlimited"]
Limited(l) == [tag |-> "Limited", l |-> l]

\* Config::new
Config_new ==
    [limit |-> Unlimited, endian |-> "Little", string_size |-> "U64",
     array_size |-> "U64"]

\* The setters of Config.
Config_no_limit(self) == [self EXCEPT !.limit = Unlimited]
Config_limit(self, limit) == [self EXCEPT !.limit = Limited(limit)]
Config_little_endian(self) == [self EXCEPT !.endian = "Little"]
Config_big_endian(self) == [self EXCEPT !.endian = "Big"]
Config_native_endian(self) == [self EXCEPT !.endian = "Native"]
Config_string_length_Both(self, size) ==
    [self EXCEPT !.string_size = size, !.array_size = size]
Config_string_length(self, size) == [self EXCEPT !.string_size = size]
Config_array_length(self, size) == [self EXCEPT !.array_size = size]

\* config_map_limit!
config_map_limit(self, opts) ==
    CASE self.limit.tag = "Unlimited" -> with_no_limit(opts)
      [] self.limit.tag = "Limited" -> with_limit(opts, self.limit.l)

\* An arm of the match that repeats the one above it.
config_map_endian_Slip(self, opts) ==
    CASE self.endian = "Little" -> with_little_endian(opts)
      [] self.endian = "Big" -> with_little_endian(opts)
      [] self.endian = "Native" -> with_native_endian(opts)

\* config_map_endian!
config_map_endian(self, opts) ==
    CASE self.endian = "Little" -> with_little_endian(opts)
      [] self.endian = "Big" -> with_big_endian(opts)
      [] self.endian = "Native" -> with_native_endian(opts)

\* config_map_string_length!
config_map_string_length(self, opts) ==
    CASE self.string_size = "U64" -> with_string_size(opts, "U64")
      [] self.string_size = "U32" -> with_string_size(opts, "U32")
      [] self.string_size = "U16" -> with_string_size(opts, "U16")
      [] self.string_size = "U8" -> with_string_size(opts, "U8")

\* config_map_array_length!
config_map_array_length(self, opts) ==
    CASE self.array_size = "U64" -> with_array_size(opts, "U64")
      [] self.array_size = "U32" -> with_array_size(opts, "U32")
      [] self.array_size = "U16" -> with_array_size(opts, "U16")
      [] self.array_size = "U8" -> with_array_size(opts, "U8")

\* config_map!: the specialization its call is evaluated with.
config_map(self) ==
    config_map_array_length(self,
        config_map_string_length(self,
            config_map_endian(self,
                config_map_limit(self, DefaultOptions_new))))

\* --------------------------------------- the traversals (ser, de modules)
\* A value is the sequence of items its traversal visits: a primitive of n
\* bytes, a string of n bytes, or a sequence of n zero-sized elements.
PrimOf(n) == [kind |-> "prim", n |-> n]
StrOf(n) == [kind |-> "str", n |-> n]
SeqOf(n) == [kind |-> "seq", n |-> n]

\* A length below 2^24 as a usize.
ToUsize(n) == Usize(<<n % 256, (n \div 256) % 256, (n \div 65536) % 256>>)

\* The size type of an item's length prefix: StringSize or ArraySize.
SizeTypeOf(o, item) ==
    IF item.kind = "str" THEN Options_StringSize(o) ELSE Options_ArraySize(o)

\* The bytes that follow an item's length prefix.
Payload(item) == IF item.kind = "seq" THEN 0 ELSE item.n

\* The encode traversal of one item against specialization o: the length
\* prefix goes through SizeType::write, every chunk is metered by
\* o.limit().add before it is produced. n is the number of bytes produced.
Encode_visit(o, item, tgt) ==
    IF item.kind = "prim"
        THEN LET b == Options_limit_add(o, item.n) IN
             [res |-> b.res, options |-> b.options,
              n |-> IF b.res = Ok THEN item.n ELSE 0]
        ELSE LET w == SizeType_write(SizeTypeOf(o, item), ToUsize(item.n),
                                     Options_Endian(o), tgt)
             IN  IF w.res # Ok
                     THEN [res |-> w.res, options |-> o, n |-> 0]
                     ELSE LET a == Options_limit_add(o, Len(w.out)) IN
                          IF a.res # Ok
                              THEN [res |-> a.res, options |-> a.options,
                                    n |-> 0]
                              ELSE LET b == Options_limit_add(a.options,
                                                              Payload(item))
                                   IN  [res |-> b.res, options |-> b.options,
                                        n |-> IF b.res = Ok
                                                 THEN Len(w.out) + Payload(item)
                                                 ELSE Len(w.out)]

\* ser::SizeChecker: the encode traversal with no writer.
SizeChecker_visit(o, item, tgt) == Encode_visit(o, item, tgt)

\* ser::Serializer: the encode traversal pushing to the writer.
Serializer_visit(o, item, tgt) == Encode_visit(o, item, tgt)

\* de::Deserializer: the decode traversal of one item; the length prefix
\* is one Primitive of the size type, every chunk is metered by
\* o.limit().add before it is pulled. n is the number of bytes pulled.
Deserializer_visit(o, item) ==
    LET p == IF item.kind = "prim"
                THEN 0 ELSE PrimitiveBytes(SizeTypeOf(o, item))
        q == IF item.kind = "prim" THEN item.n ELSE Payload(item)
        a == Options_limit_add(o, p)
    IN  IF a.res # Ok
            THEN [res |-> a.res, options |-> a.options, n |-> 0]
            ELSE LET b == Options_limit_add(a.options, q) IN
                 [res |-> b.res, options |-> b.options,
                  n |-> IF b.res = Ok THEN p + q ELSE p]

\* ------------------------------------------ the operations (internal.rs)
\* No specialization: outside a call.
NoOptions == [kind |-> "none"]

\* serialized_size: the SizeChecker's options, a CountSize around a clone
\* of the limit of the specialization it borrows.
serialized_size_counter(o) ==
    WithOtherLimit_new(o, CountSize(0, Options_limit(o)))

\* serialized_size: size_counter.options.new_limit.total
serialized_size_total(sc) == sc.new_limit.total

\* A query of the limit made on the SizeChecker's options.
serialize_into_query_Counter(o) ==
    LET l == Options_limit(serialized_size_counter(o)) IN
    [on |-> l.tag, ret |-> SizeLimit_limit(l)]

\* serialize_into: options.limit().limit(), the instance it is called on
\* and what it returns.
serialize_into_query(o) ==
    LET l == Options_limit(o) IN [on |-> l.tag, ret |-> SizeLimit_limit(l)]

\* serialize_into without its test of the limit.
NeedsPrecompute_Never(o) == FALSE

\* serialize_into: options.limit().limit().is_some()
NeedsPrecompute(o) == serialize_into_query(o).ret.some

\* A precomputation that meters against the caller's own limit.
serialized_size_release_Charged(sc) ==
    Options_limit_set(sc._options, sc.new_limit.other_limit)

\* serialized_size returns: the specialization it borrowed goes back to
\* the caller as it was passed, the clone of its limit is dropped with
\* the SizeChecker.
serialized_size_release(sc) == sc._options

\* deserialize_seed: the specialization the decoder of a byte slice gets.
deserialize_seed_options(o) == WithOtherLimit_new(o, Infinite)

\* ---------------------------------------------------------------- SpecLimit
\* The variables of the other specifications, at rest.
IdleLimit ==
    /\ inst = Infinite /\ budget = 0 /\ calls = 0 /\ total = 0
    /\ prevInst = Infinite /\ lastN = 0 /\ lastRes = "none"
    /\ failedAmts = {}

IdleFmt ==
    /\ fmtVal = [kind |-> "SizeLimit", arg |-> ""] /\ fmtPc = "idle"
    /\ fmtStack = <<>> /\ fmtOut = <<>>

IdleSize ==
    /\ szType = "U64" /\ szEndian = "Little" /\ szValue = <<>>
    /\ szPc = "idle" /\ szWire = <<>> /\ szWriteRes = "none"
    /\ szReadRes = "none"

IdleChain ==
    /\ chBase = "none" /\ chOpts = "none" /\ chApplied = {}
    /\ chWant = "none" /\ chLast = "none" /\ chPrev = "none" /\ chAdds = 0

IdleMain ==
    /\ config = Config_new /\ pc = "idle" /\ op = "none" /\ frame = "none"
    /\ value = <<>> /\ resolved = NoOptions /\ contCalls = 0
    /\ options = NoOptions /\ size_counter = NoOptions /\ idx = 0
    /\ writer = 0 /\ consumed = 0 /\ actual_size = 0
    /\ passRes = "none" /\ result = "none"
    /\ limitQueried = <<>>
    /\ lastSet = [limit |-> Unlimited, endian |-> "Little",
                  string_size |-> "U64", array_size |-> "U64"]

\* A fresh instance: Bounded(k) or Infinite, and no call made on it yet.
InitLimit ==
    /\ \E k \in 0..MaxBudget :
          /\ inst = Bounded(k) \/ (k = 0 /\ inst = Infinite)
          /\ budget = k
    /\ calls = 0 /\ total = 0 /\ prevInst = inst /\ lastN = 0
    /\ lastRes = "none" /\ failedAmts = {}
    /\ IdleSize /\ IdleChain /\ IdleMain /\ IdleFmt /\ target = "Little"

\* One call inst.add(n): SizeLimit::add on the instance's type.
Add(n) ==
    /\ calls < MaxCalls
    /\ LET r == SizeLimit_add(inst, n) IN
          /\ inst' = r.self
          /\ lastRes' = r.res
          /\ total' = IF r.res = Ok THEN total + n ELSE total
    /\ prevInst' = inst
    /\ lastN' = n
    /\ calls' = calls + 1
    /\ failedAmts' = IF lastRes = SizeLimit
                        THEN failedAmts \cup {lastN} ELSE failedAmts
    /\ UNCHANGED <<budget, sizeVars, chainVars, mainVars, fmtVars>>

NextLimit == \E n \in 0..MaxAmt : Add(n)

SpecLimit == InitLimit /\ [][NextLimit]_vars

\* The sum of the successful amounts before the last call.
TotalBefore == IF lastRes = Ok THEN total - lastN ELSE total

\* A call has been made on a Bounded instance.
BoundedCalled == inst.tag = "Bounded" /\ lastRes # "none"

\* C1: on a Bounded(k) instance every add whose running total (the amount
\* plus the earlier successful amounts) is <= k succeeds and leaves
\* remaining = k - total; an add that would push the running total above k
\* fails with SizeLimit; remaining never increases and stays within 0..k.
C1_BoundedRunningTotal ==
    BoundedCalled =>
        /\ (TotalBefore + lastN <= budget) =>
              (lastRes = Ok /\ inst.rem = budget - (TotalBefore + lastN))
        /\ (TotalBefore + lastN > budget) => lastRes = SizeLimit
        /\ inst.rem = budget - total
        /\ inst.rem <= prevInst.rem
        /\ inst.rem \in 0..budget

\* An add that crosses the budget after earlier adds succeeded.
C1_Witness ==
    /\ BoundedCalled /\ lastRes = SizeLimit
    /\ total > 0 /\ total <= budget /\ total + lastN > budget

C3_AllOrNothing ==
    BoundedCalled =>
        IF prevInst.rem < lastN
            THEN lastRes = SizeLimit /\ inst.rem = prevInst.rem
            ELSE lastRes = Ok /\ inst.rem = prevInst.rem - lastN

\* A rejected add on an instance that still had budget to charge.
C3_Witness ==
    /\ BoundedCalled /\ lastRes = SizeLimit
    /\ prevInst.rem > 0 /\ prevInst.rem < lastN

\* ----------------------------------------------------------------- SpecSize
\* The lengths written: the edges of each width, and values whose bytes
\* all differ.
SizeInputs ==
    { Usize(<<0>>), Usize(<<1>>), Usize(<<255>>), Usize(<<0, 1>>),
      Usize(<<2, 1>>), Usize(<<255, 255>>), Usize(<<0, 0, 1>>),
      Usize(<<112, 17, 1>>), Usize(<<4, 3, 2, 1>>),
      Usize(<<255, 255, 255, 255>>), Usize(<<0, 0, 0, 0, 1>>),
      Usize(<<8, 7, 6, 5, 4, 3, 2, 1>>),
      Usize(<<255, 255, 255, 255, 255, 255, 255, 255>>) }

Endians == {"Little", "Big", "Native"}
Targets == {"Little", "Big"}

InitSize ==
    /\ szType \in SizeTypes /\ szEndian \in Endians /\ szValue \in SizeInputs
    /\ target \in Targets
    /\ szPc = "idle" /\ szWire = <<>> /\ szWriteRes = "none"
    /\ szReadRes = "none"
    /\ IdleLimit /\ IdleChain /\ IdleMain /\ IdleFmt

\* S::write(writer, value) into an empty output.
SzWrite ==
    /\ szPc = "idle"
    /\ LET w == SizeType_write(szType, szValue, szEndian, target) IN
          /\ szWriteRes' = w.res
          /\ szWire' = szWire \o w.out
    /\ szPc' = "written"
    /\ UNCHANGED <<szType, szEndian, szValue, szReadRes,
                   limVars, chainVars, mainVars, fmtVars>>

\* S::read(reader) on what a successful write emitted.
SzRead ==
    /\ szPc = "written" /\ szWriteRes = Ok
    /\ szReadRes' = SizeType_read(szType, szWire, szEndian, target)
    /\ szPc' = "read"
    /\ UNCHANGED <<szType, szEndian, szValue, szWire, szWriteRes,
                   limVars, chainVars, mainVars, fmtVars>>

NextSize == SzWrite \/ SzRead

SpecSize == InitSize /\ [][NextSize]_vars

\* The length keeps its value when cut to the width of the size type and
\* widened again.
Representable(v, t) ==
    SubSeq(v, 1, PrimitiveBytes(t)) \o Zeros(Len(v) - PrimitiveBytes(t)) = v

\* C7: for every width and every length not representable in it,
\* SizeType::write fails with SizeTypeLimit and emits nothing.
C7_WriteRejectsOverflow ==
    (szPc # "idle" /\ ~Representable(szValue, szType)) =>
        (szWriteRes = SizeTypeLimit /\ szWire = <<>>)

\* A length one past the width's largest value has been written.
C7_Witness ==
    /\ szPc = "written" /\ szType = "U16" /\ szValue = Usize(<<0, 0, 1>>)
    /\ szWriteRes = SizeTypeLimit

\* C8: for every width and every length representable in it, the write
\* succeeds, emits one fixed-width value, and the read gives the length
\* back.
C8_RoundTrip ==
    /\ (szPc # "idle" /\ Representable(szValue, szType)) =>
          (szWriteRes = Ok /\ Len(szWire) = PrimitiveBytes(szType))
    /\ szPc = "read" => szReadRes = [res |-> Ok, v |-> szValue]

\* The largest 16-bit length has been written big-endian and read back.
C8_Witness ==
    /\ szPc = "read" /\ szType = "U16" /\ szValue = Usize(<<255, 255>>)
    /\ szEndian = "Big" /\ szReadRes.res = Ok

\* ---------------------------------------------------------------- SpecChain
AxisNames == {"limit", "endian", "string", "array"}

\* The limits a step or a Config can ask for.
Limits == {Infinite} \cup {Bounded(k) : k \in 0..MaxBudget}

\* The specializations the steps are applied to.
Bases ==
    { DefaultOptions_new,
      with_limit(DefaultOptions_new, MaxBudget),
      with_string_size(with_big_endian(DefaultOptions_new), "U16") }

InitChain ==
    /\ chBase \in Bases /\ chOpts = chBase /\ chApplied = {}
    /\ chWant = Axes(chBase) /\ chLast = "none" /\ chPrev = Axes(chBase)
    /\ chAdds = 0
    /\ IdleLimit /\ IdleSize /\ IdleMain /\ IdleFmt /\ target = "Little"

\* One composition step on axis a, building next and asking for want.
ChStep(a, next, want) ==
    /\ a \notin chApplied
    /\ chOpts' = next
    /\ chWant' = [chWant EXCEPT ![a] = want]
    /\ chPrev' = Axes(chOpts)
    /\ chLast' = a
    /\ chApplied' = chApplied \cup {a}
    /\ UNCHANGED <<chBase, chAdds, limVars, sizeVars, mainVars, fmtVars>>

ChLimit == \E l \in Limits : ChStep("limit", WithOtherLimit_new(chOpts, l), l)

ChEndian ==
    \E e \in Endians : ChStep("endian", WithOtherEndian_new(chOpts, e), e)

ChString ==
    \E t \in SizeTypes :
        ChStep("string", WithOtherStringLength_new(chOpts, t), t)

ChArray ==
    \E t \in SizeTypes :
        ChStep("array", WithOtherArrayLength_new(chOpts, t), t)

\* options.limit().add(n) on the composed specialization.
ChAdd ==
    \E n \in 1..MaxAmt :
        /\ chAdds < MaxMeter
        /\ chOpts' = Options_limit_add(chOpts, n).options
        /\ chWant' = [chWant EXCEPT
                         !.limit = SizeLimit_add(chWant.limit, n).self]
        /\ chPrev' = Axes(chOpts)
        /\ chLast' = "add"
        /\ chAdds' = chAdds + 1
        /\ UNCHANGED <<chBase, chApplied, limVars, sizeVars, mainVars,
                       fmtVars>>

NextChain == ChLimit \/ ChEndian \/ ChString \/ ChArray \/ ChAdd

SpecChain == InitChain /\ [][NextChain]_vars

\* C10: a composition step changes the one axis it owns and forwards the
\* other three, the live limit instance included, from the specialization
\* it wraps; so whatever the order of the steps, each axis of the result is
\* the one its step asked for, or the base's when no step was applied.
C10_StepsOverrideOneAxis ==
    /\ chLast \in AxisNames =>
          \A a \in AxisNames \ {chLast} : Axes(chOpts)[a] = chPrev[a]
    /\ \A a \in AxisNames :
          Axes(chOpts)[a] = IF a \in chApplied \/ a = "limit"
                               THEN chWant[a] ELSE Axes(chBase)[a]

\* All four steps applied, the limit step innermost and the string step
\* before the array step's, with a metered budget forwarded through them.
C10_Witness ==
    /\ chApplied = AxisNames /\ chAdds > 0
    /\ chOpts.kind = "WithOtherEndian"
    /\ chOpts.options.kind = "WithOtherStringLength"
    /\ Options_limit(chOpts).tag = "Bounded"
    /\ Options_limit(chOpts).rem < MaxBudget
    /\ Options_limit(chOpts).rem > 0

\* --------------------------------------------------------------------- Spec
\* The items of the values: a one-byte primitive, a one-byte string, a
\* sequence whose length does not fit 8 bits.
Items == {PrimOf(1), StrOf(1), SeqOf(256)}

Values == UNION {[1..n -> Items] : n \in 0..MaxItems}

SerOps == {"serialize", "serialized_size", "serialize_into"}
SliceOps == {"deserialize", "deserialize_seed"}
ReaderOps ==
    {"deserialize_from", "deserialize_from_seed", "deserialize_from_custom",
     "deserialize_from_custom_seed", "deserialize_in_place"}
DeOps == SliceOps \cup ReaderOps

\* Config::new, and no operation in progress.
Init ==
    /\ IdleMain /\ target = "Little"
    /\ IdleLimit /\ IdleSize /\ IdleChain /\ IdleFmt

others == <<target, limVars, sizeVars, chainVars, fmtVars>>

\* A setter of Config, between operations.
Set(c, given) ==
    /\ pc = "idle"
    /\ config' = c
    /\ lastSet' = given
    /\ UNCHANGED <<pc, op, frame, value, resolved, contCalls, options,
                   size_counter, idx, writer, consumed, actual_size,
                   passRes, result, limitQueried, others>>

no_limit == Set(Config_no_limit(config), [lastSet EXCEPT !.limit = Unlimited])
limit ==
    \E k \in 0..MaxBudget :
        Set(Config_limit(config, k), [lastSet EXCEPT !.limit = Limited(k)])
little_endian ==
    Set(Config_little_endian(config), [lastSet EXCEPT !.endian = "Little"])
big_endian == Set(Config_big_endian(config), [lastSet EXCEPT !.endian = "Big"])
native_endian ==
    Set(Config_native_endian(config), [lastSet EXCEPT !.endian = "Native"])
string_length ==
    \E t \in SizeTypes :
        Set(Config_string_length(config, t), [lastSet EXCEPT !.string_size = t])
array_length ==
    \E t \in SizeTypes :
        Set(Config_array_length(config, t), [lastSet EXCEPT !.array_size = t])

\* A method of Config: config_map! resolves self and evaluates its call, a
\* function of internal.rs, with the specialization.
Resolve(o, v) ==
    /\ pc = "idle"
    /\ op' = o
    /\ value' = v
    /\ resolved' = config_map(config)
    /\ contCalls' = contCalls + 1
    /\ idx' = 1 /\ writer' = 0 /\ consumed' = 0 /\ actual_size' = 0
    /\ passRes' = "none" /\ result' = "none"
    /\ UNCHANGED <<config, lastSet, others>>

\* serialized_size entered with o: the counting traversal starts.
EnterCount(o) ==
    /\ pc' = "count"
    /\ options' = o
    /\ size_counter' = serialized_size_counter(o)

\* serialize_into entered with o: it asks the limit of o for its bound,
\* then the precomputation when the limit is bounded, else the
\* Serializer's traversal.
EnterSerializeInto(o) ==
    /\ frame' = "serialize_into"
    /\ limitQueried' = Append(limitQueried, serialize_into_query(o))
    /\ IF NeedsPrecompute(o)
          THEN EnterCount(o)
          ELSE pc' = "write" /\ options' = o /\ size_counter' = NoOptions

\* Config::serialize: internal::serialize starts with serialized_size.
serialize ==
    \E v \in Values :
        /\ Resolve("serialize", v)
        /\ frame' = "serialize"
        /\ EnterCount(config_map(config))
        /\ UNCHANGED limitQueried

\* Config::serialized_size
serialized_size ==
    \E v \in Values :
        /\ Resolve("serialized_size", v)
        /\ frame' = "serialized_size"
        /\ EnterCount(config_map(config))
        /\ UNCHANGED limitQueried

\* Config::serialize_into
serialize_into ==
    \E v \in Values :
        /\ Resolve("serialize_into", v)
        /\ EnterSerializeInto(config_map(config))

\* The deserialize forms that end in deserialize_from_custom_seed with the
\* specialization as resolved.
FromReader(o) ==
    \E v \in Values :
        /\ Resolve(o, v)
        /\ frame' = o
        /\ pc' = "read"
        /\ options' = config_map(config)
        /\ size_counter' = NoOptions
        /\ UNCHANGED limitQueried

\* The deserialize forms of a byte slice: deserialize_seed replaces the
\* limit before deserialize_from_custom_seed.
FromSlice(o) ==
    \E v \in Values :
        /\ Resolve(o, v)
        /\ frame' = o
        /\ pc' = "read"
        /\ options' = deserialize_seed_options(config_map(config))
        /\ size_counter' = NoOptions
        /\ UNCHANGED limitQueried

deserialize == FromSlice("deserialize")
deserialize_seed == FromSlice("deserialize_seed")
deserialize_from == FromReader("deserialize_from")
deserialize_from_seed == FromReader("deserialize_from_seed")
deserialize_from_custom == FromReader("deserialize_from_custom")
deserialize_from_custom_seed == FromReader("deserialize_from_custom_seed")
deserialize_in_place == FromReader("deserialize_in_place")

\* value.serialize(&mut size_counter), one item.
CountStep ==
    /\ pc = "count" /\ passRes = "none" /\ idx <= Len(value)
    /\ LET r == SizeChecker_visit(size_counter, value[idx], target) IN
          /\ size_counter' = r.options
          /\ passRes' = IF r.res = Ok THEN "none" ELSE r.res
    /\ idx' = idx + 1
    /\ UNCHANGED <<config, lastSet, limitQueried, pc, op, frame, value,
                   resolved, contCalls, options, writer, consumed,
                   actual_size, result, others>>

\* serialized_size returns result.map(|_| total) and its borrow of the
\* caller's specialization ends. An Err is returned by the caller too
\* (the ? in serialize and in serialize_into). After an Ok,
\* Config::serialized_size returns the total, serialize allocates and calls
\* serialize_into with options.with_no_limit(), serialize_into builds the
\* Serializer.
CountReturn ==
    /\ pc = "count" /\ (passRes # "none" \/ idx > Len(value))
    /\ idx' = 1
    /\ passRes' = "none"
    /\ LET back == serialized_size_release(size_counter)
           sz == serialized_size_total(size_counter)
       IN  CASE passRes # "none" ->
                  /\ pc' = "done"
                  /\ result' = passRes
                  /\ options' = back
                  /\ size_counter' = NoOptions
                  /\ UNCHANGED <<frame, actual_size, limitQueried>>
             [] passRes = "none" /\ frame = "serialized_size" ->
                  /\ pc' = "done"
                  /\ result' = Ok
                  /\ actual_size' = sz
                  /\ options' = back
                  /\ size_counter' = NoOptions
                  /\ UNCHANGED <<frame, limitQueried>>
             [] passRes = "none" /\ frame = "serialize" ->
                  /\ actual_size' = sz
                  /\ EnterSerializeInto(with_no_limit(back))
                  /\ UNCHANGED result
             [] passRes = "none" /\ frame = "serialize_into" ->
                  /\ pc' = "write"
                  /\ options' = back
                  /\ size_counter' = NoOptions
                  /\ UNCHANGED <<frame, actual_size, result, limitQueried>>
    /\ UNCHANGED <<config, lastSet, op, value, resolved, contCalls, writer,
                   consumed, others>>

\* serde::Serialize::serialize(value, &mut serializer), one item.
WriteStep ==
    /\ pc = "write" /\ passRes = "none" /\ idx <= Len(value)
    /\ LET r == Serializer_visit(options, value[idx], target) IN
          /\ options' = r.options
          /\ writer' = writer + r.n
          /\ passRes' = IF r.res = Ok THEN "none" ELSE r.res
    /\ idx' = idx + 1
    /\ UNCHANGED <<config, lastSet, limitQueried, pc, op, frame, value,
                   resolved, contCalls, size_counter, consumed, actual_size,
                   result, others>>

\* serialize_into returns what the traversal returned; serialize returns
\* Ok(writer) after an Ok.
WriteReturn ==
    /\ pc = "write" /\ (passRes # "none" \/ idx > Len(value))
    /\ pc' = "done"
    /\ result' = IF passRes = "none" THEN Ok ELSE passRes
    /\ passRes' = "none"
    /\ UNCHANGED <<config, lastSet, limitQueried, op, frame, value, resolved,
                   contCalls, options, size_counter, idx, writer, consumed,
                   actual_size, others>>

\* seed.deserialize(&mut deserializer), one item.
ReadStep ==
    /\ pc = "read" /\ passRes = "none" /\ idx <= Len(value)
    /\ LET r == Deserializer_visit(options, value[idx]) IN
          /\ options' = r.options
          /\ consumed' = consumed + r.n
          /\ passRes' = IF r.res = Ok THEN "none" ELSE r.res
    /\ idx' = idx + 1
    /\ UNCHANGED <<config, lastSet, limitQueried, pc, op, frame, value,
                   resolved, contCalls, size_counter, writer, actual_size,
                   result, others>>

\* deserialize_from_custom_seed returns what the traversal returned.
ReadReturn ==
    /\ pc = "read" /\ (passRes # "none" \/ idx > Len(value))
    /\ pc' = "done"
    /\ result' = IF passRes = "none" THEN Ok ELSE passRes
    /\ passRes' = "none"
    /\ UNCHANGED <<config, lastSet, limitQueried, op, frame, value, resolved,
                   contCalls, options, size_counter, idx, writer, consumed,
                   actual_size, others>>

\* The caller has the result; the Config is ready for the next call.
Return ==
    /\ pc = "done"
    /\ pc' = "idle" /\ op' = "none" /\ frame' = "none" /\ value' = <<>>
    /\ resolved' = NoOptions /\ contCalls' = 0 /\ options' = NoOptions
    /\ size_counter' = NoOptions /\ idx' = 0 /\ writer' = 0
    /\ consumed' = 0 /\ actual_size' = 0 /\ passRes' = "none"
    /\ result' = "none" /\ limitQueried' = <<>>
    /\ UNCHANGED <<config, lastSet, others>>

Next ==
    \/ no_limit \/ limit \/ little_endian \/ big_endian \/ native_endian
    \/ string_length \/ array_length
    \/ serialize \/ serialized_size \/ serialize_into
    \/ deserialize \/ deserialize_seed \/ deserialize_from
    \/ deserialize_from_seed \/ deserialize_from_custom
    \/ deserialize_from_custom_seed \/ deserialize_in_place
    \/ CountStep \/ CountReturn \/ WriteStep \/ WriteReturn
    \/ ReadStep \/ ReadReturn \/ Return

Spec == Init /\ [][Next]_vars

\* The width of a LengthOption in bits.
LengthBits(t) ==
    CASE t = "U64" -> 64 [] t = "U32" -> 32 [] t = "U16" -> 16 [] t = "U8" -> 8

\* A length (below 2^24) fits the width.
Fits(n, t) == LengthBits(t) >= 24 \/ n < 2 ^ LengthBits(t)

\* The length of an item is representable in the width the Config gives
\* its prefix.
ItemEncodable(item, c) ==
    CASE item.kind = "prim" -> TRUE
      [] item.kind = "str" -> Fits(item.n, c.string_size)
      [] item.kind = "seq" -> Fits(item.n, c.array_size)

\* The bytes of an item's encoding under the widths of the Config.
ItemSize(item, c) ==
    CASE item.kind = "prim" -> item.n
      [] item.kind = "str" -> (LengthBits(c.string_size) \div 8) + item.n
      [] item.kind = "seq" -> LengthBits(c.array_size) \div 8

Encodable(v, c) == \A i \in 1..Len(v) : ItemEncodable(v[i], c)

RECURSIVE EncodedSize(_, _)
EncodedSize(v, c) ==
    IF v = <<>> THEN 0 ELSE ItemSize(Head(v), c) + EncodedSize(Tail(v), c)

\* The Config bounds the bytes and the value's encoding is larger.
OverBudget ==
    /\ config.limit.tag = "Limited"
    /\ Encodable(value, config)
    /\ EncodedSize(value, config) > config.limit.l

\* The Config does not bound the bytes, or the value's encoding fits.
WithinBudget ==
    /\ Encodable(value, config)
    /\ \/ config.limit.tag = "Unlimited"
       \/ EncodedSize(value, config) <= config.limit.l

\* C4: under a Config limited to k and for a value whose encoding is
\* larger than k, serialize and serialize_into fail with SizeLimit in the
\* precomputation: the Serializer's traversal never starts and no byte
\* reaches the writer.
C4_OverBudgetWritesNothing ==
    (op \in {"serialize", "serialize_into"} /\ OverBudget) =>
        /\ pc \in {"count", "done"}
        /\ writer = 0
        /\ pc = "done" => result = SizeLimit

\* serialize_into has refused a two-item value that a budget of at least
\* one byte could have started to write.
C4_Witness ==
    /\ pc = "done" /\ op = "serialize_into" /\ OverBudget
    /\ config.limit.l > 0 /\ Len(value) = 2 /\ result = SizeLimit

\* C5: for a value and a Config that does not bound the bytes or bounds
\* them at no less than the value's encoding, serialized_size returns the
\* number of bytes of the encoding, and serialize returns a buffer of
\* exactly the precomputed size.
C5_SizeMatchesOutput ==
    pc = "done" =>
        /\ (op \in {"serialize", "serialized_size"} /\ WithinBudget) =>
              (result = Ok /\ actual_size = EncodedSize(value, config))
        /\ (op = "serialize" /\ result = Ok) => writer = actual_size

\* serialize has returned a buffer that fills a bounded budget, for a
\* value with a string in it.
C5_Witness ==
    /\ pc = "done" /\ op = "serialize" /\ result = Ok
    /\ config.limit.tag = "Limited" /\ writer = config.limit.l
    /\ writer > 0 /\ \E i \in 1..Len(value) : value[i].kind = "str"

\* C6 as stated: under a Config limited to k, no deserialize form returns
\* Ok after its traversal metered more than k bytes.
C6_DeserializeHonoursLimit ==
    (pc = "done" /\ op \in DeOps /\ config.limit.tag = "Limited"
        /\ result = Ok) => consumed <= config.limit.l

RECURSIVE ChainKinds(_)
\* The composition steps of a specialization, outermost first.
ChainKinds(o) ==
    IF o.kind = "DefaultOptions"
        THEN <<o.kind>> ELSE <<o.kind>> \o ChainKinds(InnerOptions(o))

RECURSIVE ChainBase(_)
\* The specialization the steps started from.
ChainBase(o) ==
    IF o.kind = "DefaultOptions" THEN o ELSE ChainBase(InnerOptions(o))

\* C9: config_map! starts from the default specialization (Infinite,
\* Little, U64, U64), applies the steps limit, byte order, string width,
\* array width in that order, and evaluates its call once, with a
\* specialization whose four axes are the four fields of the Config.
C9_ResolverMatchesConfig ==
    pc # "idle" =>
        /\ contCalls = 1
        /\ ChainKinds(resolved) =
              <<"WithOtherArrayLength", "WithOtherStringLength",
                "WithOtherEndian", "WithOtherLimit", "DefaultOptions">>
        /\ Axes(ChainBase(resolved)) =
              [limit |-> Infinite, endian |-> "Little", string |-> "U64",
               array |-> "U64"]
        /\ Options_limit(resolved) =
              IF config.limit.tag = "Unlimited"
                  THEN Infinite ELSE Bounded(config.limit.l)
        /\ Options_Endian(resolved) = config.endian
        /\ Options_StringSize(resolved) = config.string_size
        /\ Options_ArraySize(resolved) = config.array_size

\* A Config with no field at its default has been resolved.
C9_Witness ==
    /\ pc = "done"
    /\ config = [limit |-> Limited(MaxBudget), endian |-> "Big",
                 string_size |-> "U16", array_size |-> "U8"]
    /\ Options_Endian(resolved) = "Big"

\* C12: a Config starts as (Unlimited, Little, U64, U64); in every state,
\* between setters and during and after any operation, each field holds
\* the value the most recent setter of its axis was given (the default
\* when there was none), so a setter changes its own field only and the
\* operations change none.
C12_FieldsHoldLastSetter ==
    /\ config.limit = lastSet.limit
    /\ config.endian = lastSet.endian
    /\ config.string_size = lastSet.string_size
    /\ config.array_size = lastSet.array_size

\* Every axis was set away from its default and an operation has run.
C12_Witness ==
    /\ pc = "done"
    /\ config = [limit |-> Limited(1), endian |-> "Big",
                 string_size |-> "U8", array_size |-> "U16"]

\* C13: in the counting pass every add(n) on the CountSize is forwarded to
\* the wrapped limit: a rejection is returned as it is and leaves total
\* unchanged, an acceptance grows total by n. Over a wrapped Bounded(k),
\* total plus the wrapped remaining budget is k in every state of the pass.
\* For a value whose lengths are representable, serialized_size returns the
\* sum of the metered chunks when it succeeds, and under a limit k it fails
\* with SizeLimit exactly when that sum is above k.
C13_CountingPass ==
    /\ pc = "count" =>
          LET cs == size_counter.new_limit IN
          /\ cs.tag = "CountSize"
          /\ \A n \in 0..MaxAmt :
                LET f == SizeLimit_add(cs.other_limit, n)
                    r == SizeLimit_add(cs, n)
                IN  /\ r.res = f.res
                    /\ r.self.other_limit = f.self
                    /\ r.self.total = IF f.res = Ok THEN cs.total + n
                                                    ELSE cs.total
          /\ config.limit.tag = "Limited" =>
                /\ cs.other_limit.tag = "Bounded"
                /\ cs.total + cs.other_limit.rem = config.limit.l
    /\ (pc = "done" /\ op = "serialized_size" /\ Encodable(value, config)) =>
          /\ result = Ok => actual_size = EncodedSize(value, config)
          /\ config.limit.tag = "Limited" =>
                /\ result \in {Ok, SizeLimit}
                /\ result = SizeLimit <=>
                      EncodedSize(value, config) > config.limit.l

\* The counting pass over a bounded budget has metered a chunk and had
\* the next one rejected.
C13_Witness ==
    /\ pc = "count" /\ passRes = SizeLimit
    /\ config.limit.tag = "Limited"
    /\ size_counter.new_limit.total > 0
    /\ size_counter.new_limit.total < EncodedSize(value, config)

\* C14: the precomputation meters against a copy of the limit. When
\* serialized_size has returned, with a size or with an error, the limit
\* of the specialization it was passed is as it was before the call. In
\* serialize_into under a limit k the Serializer's traversal starts with
\* the whole budget k, and a value whose encoding has at most k bytes,
\* exactly k included, is written completely and without SizeLimit.
C14_BudgetNotChargedTwice ==
    /\ (pc = "done" /\ op = "serialized_size") =>
          Options_limit(options) = Options_limit(resolved)
    /\ (pc = "write" /\ idx = 1 /\ op = "serialize_into"
          /\ config.limit.tag = "Limited") =>
          Options_limit(options) = Bounded(config.limit.l)
    /\ (pc = "done" /\ op = "serialize_into"
          /\ config.limit.tag = "Limited" /\ WithinBudget) =>
          (result = Ok /\ writer = EncodedSize(value, config))

\* serialize_into has written a value whose encoding fills the budget to
\* the last byte.
C14_Witness ==
    /\ pc = "done" /\ op = "serialize_into" /\ result = Ok
    /\ config.limit.tag = "Limited" /\ config.limit.l > 0
    /\ Encodable(value, config)
    /\ EncodedSize(value, config) = config.limit.l
    /\ writer = config.limit.l

\* C15: the unreachable!() of CountSize::limit is never executed. The only
\* call of SizeLimit::limit is the one serialize_into makes, once, on the
\* limit of the specialization it was given, an Infinite or a Bounded and
\* never the CountSize of the counting pass.
C15_CountSizeLimitNeverQueried ==
    /\ \A i \in 1..Len(limitQueried) :
          /\ limitQueried[i].on \in {"Bounded", "Infinite"}
          /\ "panic" \notin DOMAIN limitQueried[i].ret
    /\ Len(limitQueried) <= 1
    /\ limitQueried # <<>> =>
          (op \in {"serialize", "serialize_into"} /\ frame = "serialize_into")
    /\ pc = "count" => size_counter.new_limit.tag = "CountSize"

\* serialize_into has asked a Bounded limit for its bound and the counting
\* pass over a CountSize is under way.
C15_Witness ==
    /\ pc = "count" /\ op = "serialize_into" /\ idx > 1
    /\ size_counter.new_limit.tag = "CountSize"
    /\ Len(limitQueried) = 1 /\ limitQueried[1].on = "Bounded"

\* ------------------------------------------------------------------ SpecFmt
\* enum ErrorKind: a variant and the text its payload renders as.
ErrorKind(k, a) == [kind |-> k, arg |-> a]

ErrorKinds ==
    { ErrorKind("Io", a) : a \in {"failed to fill whole buffer", "other"} }
    \cup { ErrorKind("InvalidUtf8Encoding", a) :
              a \in {"invalid utf-8 sequence", "incomplete utf-8 sequence"} }
    \cup { ErrorKind("InvalidBoolEncoding", a) : a \in {"2", "3", "255"} }
    \cup { ErrorKind("InvalidTagEncoding", a) : a \in {"3", "99"} }
    \cup { ErrorKind("Custom", a) : a \in {"", "a", "missing field"} }
    \cup { ErrorKind(k, "") :
              k \in {"InvalidCharEncoding", "DeserializeAnyNotSupported",
                     "SizeLimit", "SizeTypeLimit", "SequenceMustHaveLength"} }

\* The pieces of a write!: a literal of the format string, the payload of
\* the variant, or self, each {} rendered by the Display of its argument.
Lit(t) == [p |-> "lit", text |-> t]
Arg == [p |-> "arg", text |-> ""]
Self == [p |-> "self", text |-> ""]

\* impl fmt::Display for ErrorKind: the arm of the match for the variant,
\* as the pieces its write! renders in order.
Display_fmt(e) ==
    CASE e.kind = "Io" -> <<Lit("io error: "), Arg>>
      [] e.kind = "InvalidUtf8Encoding" -> <<Self, Lit(": "), Arg>>
      [] e.kind = "InvalidBoolEncoding" ->
            <<Self, Lit(", expected 0 or 1, found "), Arg>>
      [] e.kind = "InvalidCharEncoding" -> <<Self>>
      [] e.kind = "InvalidTagEncoding" -> <<Self, Lit(", found "), Arg>>
      [] e.kind = "SequenceMustHaveLength" -> <<Self>>
      [] e.kind = "SizeLimit" -> <<Self>>
      [] e.kind = "SizeTypeLimit" -> <<Self>>
      [] e.kind = "DeserializeAnyNotSupported" ->
            <<Lit("Bincode does not support the serde::Deserializer::deserialize_any method")>>
      [] e.kind = "Custom" -> <<Arg>>

InitFmt ==
    /\ fmtVal \in ErrorKinds /\ fmtPc = "idle" /\ fmtStack = <<>>
    /\ fmtOut = <<>>
    /\ IdleLimit /\ IdleSize /\ IdleChain /\ IdleMain /\ target = "Little"

\* The call of fmt in progress and the piece it is at.
FmtTop == fmtStack[Len(fmtStack)]
FmtPiece == Display_fmt(fmtVal)[FmtTop]
FmtAtPiece ==
    fmtPc = "run" /\ fmtStack # <<>> /\ FmtTop <= Len(Display_fmt(fmtVal))

\* The call in progress moves to its next piece.
FmtAdvance(st) == [st EXCEPT ![Len(st)] = st[Len(st)] + 1]

\* A caller renders the value: Display::fmt(&value, fmt).
FmtCall ==
    /\ fmtPc = "idle"
    /\ fmtPc' = "run"
    /\ fmtStack' = <<1>>
    /\ UNCHANGED <<fmtVal, fmtOut, limVars, sizeVars, chainVars, mainVars>>

\* write! emits a literal or the payload.
FmtWrite ==
    /\ FmtAtPiece /\ FmtPiece.p # "self"
    /\ fmtOut' = Append(fmtOut, IF FmtPiece.p = "lit"
                                   THEN FmtPiece.text ELSE fmtVal.arg)
    /\ fmtStack' = FmtAdvance(fmtStack)
    /\ UNCHANGED <<fmtVal, fmtPc, limVars, sizeVars, chainVars, mainVars>>

\* write! renders self with {}: Display::fmt of the same value is called
\* again, on a new stack frame while the stack has room.
FmtSelf ==
    /\ FmtAtPiece /\ FmtPiece.p = "self"
    /\ IF Len(fmtStack) < MaxStack
          THEN fmtStack' = Append(fmtStack, 1) /\ fmtPc' = fmtPc
          ELSE fmtStack' = fmtStack /\ fmtPc' = "overflow"
    /\ UNCHANGED <<fmtVal, fmtOut, limVars, sizeVars, chainVars, mainVars>>

\* The write! of a call is complete: fmt returns to the write! that called
\* it, or to the caller.
FmtReturn ==
    /\ fmtPc = "run" /\ fmtStack # <<>>
    /\ FmtTop > Len(Display_fmt(fmtVal))
    /\ IF Len(fmtStack) = 1
          THEN fmtStack' = <<>> /\ fmtPc' = "done"
          ELSE /\ fmtStack' = FmtAdvance(SubSeq(fmtStack, 1, Len(fmtStack) - 1))
               /\ fmtPc' = fmtPc
    /\ UNCHANGED <<fmtVal, fmtOut, limVars, sizeVars, chainVars, mainVars>>

NextFmt == FmtCall \/ FmtWrite \/ FmtSelf \/ FmtReturn

SpecFmt == InitFmt /\ [][NextFmt]_vars

\* C11 as stated: the rendering of every ErrorKind variant comes to an
\* end; none re-enters the rendering of the same value until the stack is
\* exhausted.
C11_RenderingTerminates == fmtPc # "overflow"

====
